---- MODULE Spec2Model ----
(***************************************************************************)
(* Lot tracker backend: the order-processing transaction (processOrder),   *)
(* the batch CRUD routes and the PostgreSQL behaviour they rely on         *)
(* (READ COMMITTED statements, row locks held to the end of a transaction, *)
(* unique indexes).  One step of the model is one SQL statement (or a run  *)
(* of statements that no other session can observe apart).                 *)
(***************************************************************************)
EXTENDS Integers, Sequences, FiniteSets, TLC

(***************************************************************************)
(* Bounds of the model.                                                    *)
(***************************************************************************)
MaxQty == 2
MaxLines == 2
MaxCalls == 3
MaxUpdates == 1
MaxDeletes == 1
MaxClock == 1
MaxSuggestions == 2

(***************************************************************************)
(* Program constants.                                                      *)
(***************************************************************************)
DefaultBatchQty == 100

\* SQL NULL / a missing JSON field, for the integer-valued columns and fields.
NULL == -99

Procs == {1, 2}
Products == {"P1", "P2"}
\* External order identifiers and human-assigned batch numbers, in the order
\* in which requests first use them.
OrderIds == <<"o1", "o2">>
BatchNumbers == <<"LOT1", "LOT2">>
Range(s) == {s[n] : n \in 1..Len(s)}

\* The SKU the shop sends for each product ("" is a product without SKU).
SkuOf(ext) == IF ext = "P1" THEN "SKU1" ELSE ""

\* The metafields the shop has set on each product.  Metafield values are
\* strings; "" stands for a metafield that is not set.
Metafields(ext) ==
  CASE ext = "P1" -> [shelfLife |-> "1", batchQuantity |-> "1"]
    [] ext = "P3" -> [shelfLife |-> "", batchQuantity |-> "0"]
    [] ext = "P4" -> [shelfLife |-> "", batchQuantity |-> "-1"]
    [] OTHER -> [shelfLife |-> "", batchQuantity |-> ""]

\* parseInt(s, 10) on the metafield strings above
parseInt(s) ==
  CASE s = "-1" -> -1
    [] s = "0" -> 0
    [] s = "1" -> 1
    [] s = "2" -> 2
    [] s = "3" -> 3
    [] OTHER -> NULL

\* JavaScript truthiness of a (possibly missing) string
Truthy(s) == s /= ""

Min(a, b) == IF a <= b THEN a ELSE b

VARIABLES
  products,          \* committed rows of table products
  batches,           \* committed rows of table batches, by id
  orders,            \* committed rows of table orders
  order_line_items,  \* committed rows of table order_line_items (Consumptions)
  nextId,            \* the SERIAL sequences of the three tables
  clock,             \* wall clock, in days
  pc,                \* where each request handler stands
  req,               \* the request each handler is serving
  loc,               \* the handler's local variables
  tx,                \* the uncommitted writes of each handler's transaction
  resp,              \* the HTTP status of the last response sent (0: none yet)
  calls,             \* number of requests that went past the check of their body
  checkedOut,        \* number of clients checked out of the connection pool
  form               \* the "new batch" form of the admin UI and its requests in flight

vars == <<products, batches, orders, order_line_items, nextId, clock,
          pc, req, loc, tx, resp, calls, checkedOut, form>>

CallsStarted == calls.total

EmptyFcn == [x \in {} |-> 0]

Merge(f, g) ==
  [x \in (DOMAIN f) \cup (DOMAIN g) |-> IF x \in DOMAIN g THEN g[x] ELSE f[x]]

NoTx == [orders |-> {}, products |-> {}, batches |-> EmptyFcn, lines |-> <<>>]

NoReq == [kind |-> "none"]

\* A handler's local variables.  existed: the INSERT of the order returned no
\* row (orderRes.rows.length === 0).  overlapped is bookkeeping, not program
\* state: the request arrived while another handler was serving a request
\* for the same external order identifier.
NoLoc ==
  [txStart |-> 0, newOrderId |-> 0, existed |-> FALSE, overlapped |-> FALSE, i |-> 0,
   quantityToFulfill |-> 0, productId |-> 0, productSku |-> "",
   batchesResult |-> <<>>, k |-> 0, target |-> 0]

\* The form as the component mounts: useState('') and useState(false), and
\* no request for a suggestion under way.
NoForm ==
  [selectedShopifyProduct |-> "", batchNumber |-> "", expiryDate |-> NULL,
   quantity |-> "", expiryTouched |-> FALSE, expirySuggested |-> FALSE,
   suggestions |-> <<>>]

\* Sequences over S of length 1..n
RECURSIVE SeqsUpTo(_, _)
SeqsUpTo(S, n) ==
  IF n = 0 THEN {<<>>}
  ELSE LET shorter == SeqsUpTo(S, n - 1)
       IN shorter \cup {Append(s, x) : s \in {t \in shorter : Len(t) = n - 1}, x \in S}

LineItemInputs ==
  [shopifyProductId : Products, quantity : 1..MaxQty]

\* The bodies POST /api/orders is called with (an empty lineItems included).
OrderPayloads ==
  [kind : {"order"}, via : {"api"}, shopifyOrderId : Range(OrderIds), orderDate : {0},
   lineItems : SeqsUpTo(LineItemInputs, MaxLines)]

\* Bodies of POST /api/orders whose only line item asks for no unit at all:
\* processOrder looks at lineItems.length, not at the quantities.
ZeroQuantityPayloads ==
  [kind : {"order"}, via : {"api"}, shopifyOrderId : Range(OrderIds), orderDate : {0},
   lineItems : {<<[shopifyProductId |-> ext, quantity |-> 0]>> : ext \in Products}]

\* Bodies of POST /api/orders for products whose default-batch-quantity
\* metafield is not set (P2), "0" (P3) and "-1" (P4).
HintOrderPayloads ==
  [kind : {"order"}, via : {"api"}, shopifyOrderId : Range(OrderIds), orderDate : {0},
   lineItems : SeqsUpTo([shopifyProductId : {"P2", "P3", "P4"}, quantity : 1..MaxQty],
                        MaxLines)]

\* What Shopify delivers to POST /webhooks/orders/create: numeric order and
\* product ids, line items of one unit and line items that lack the product
\* or the quantity (NULL) or carry a quantity that is not positive, and a
\* creation date that may be missing.
RawLineItems ==
  [product_id : {1, 2}, quantity : {1}]
  \cup {[product_id |-> NULL, quantity |-> 1], [product_id |-> 1, quantity |-> 0],
        [product_id |-> 2, quantity |-> NULL], [product_id |-> 2, quantity |-> -1]}

WebhookDeliveries ==
  [id : 1..Len(OrderIds), created_at : {NULL, 1},
   line_items : SeqsUpTo(RawLineItems, MaxLines)]

\* String(order.id)
OrderIdString(id) == OrderIds[id]

\* `gid://shopify/Product/${li.product_id}`
ProductGid(product_id) == IF product_id = 1 THEN "P1" ELSE "P2"

\* parseInt(li.quantity, 10) || 0 on a JSON number or a missing field
QuantityOrZero(quantity) == IF quantity = NULL THEN 0 ELSE quantity

\* The mapping without its last filter: every line item with a product
MapLineItemsWithProduct(line_items) ==
  LET withProduct == SelectSeq(line_items, LAMBDA li : li.product_id /= NULL)
  IN [n \in 1..Len(withProduct) |->
        [shopifyProductId |-> ProductGid(withProduct[n].product_id),
         quantity |-> QuantityOrZero(withProduct[n].quantity)]]

\* The mapping of order.line_items to the lineItems of processOrder:
\* .filter(li => li.product_id).map(...).filter(li => li.quantity > 0)
MapLineItems(line_items) ==
  LET withProduct == SelectSeq(line_items, LAMBDA li : li.product_id /= NULL)
      mapped == [n \in 1..Len(withProduct) |->
                   [shopifyProductId |-> ProductGid(withProduct[n].product_id),
                    quantity |-> QuantityOrZero(withProduct[n].quantity)]]
  IN SelectSeq(mapped, LAMBDA li : li.quantity > 0)

CreatePayloads ==
  [kind : {"create"}, shopifyProductId : Products, batchNumber : Range(BatchNumbers),
   expiryDate : {NULL, 1, 2}, quantity : 0..MaxQty]

\* The bodies PUT /api/batches/:id is called with (NULL: the field is missing).
UpdatePayloads ==
  [expiryDate : {NULL, 1}, quantity : {NULL} \cup (1..MaxQty)]

\* The requests that are let run concurrently: one unit per line item.
RaceOrderPayloads ==
  {b \in OrderPayloads : \A n \in 1..Len(b.lineItems) : b.lineItems[n].quantity = 1}
RaceCreatePayloads ==
  {b \in CreatePayloads : b.quantity = 1 /\ b.expiryDate \in {NULL, 1}}
RaceUpdatePayloads ==
  {b \in UpdatePayloads : b.quantity = 1}

Init ==
  /\ products = {}
  /\ batches = EmptyFcn
  /\ orders = {}
  /\ order_line_items = <<>>
  /\ nextId = [products |-> 1, batches |-> 1, orders |-> 1]
  /\ clock = 0
  /\ pc = [p \in Procs |-> "idle"]
  /\ req = [p \in Procs |-> NoReq]
  /\ loc = [p \in Procs |-> NoLoc]
  /\ tx = [p \in Procs |-> NoTx]
  /\ resp = 0
  /\ calls = [total |-> 0, update |-> 0, delete |-> 0]
  /\ checkedOut = 0
  /\ form = NoForm

(***************************************************************************)
(* The database as one session sees it.                                    *)
(***************************************************************************)
\* What a statement of p reads: the committed rows and p's own writes.
ViewProducts(p) == products \cup tx[p].products
\* A statement that reads committed rows only, not its transaction's writes
CommittedBatches(p) == batches
ViewBatches(p) == Merge(batches, tx[p].batches)

\* Rows of batches that p has written and not yet committed hold p's row lock.
LockHolders(id) == {q \in Procs : id \in DOMAIN tx[q].batches}
LockedByOther(p, id) == LockHolders(id) \ {p} /= {}

\* Batch numbers: a token and a time stamp; a human-assigned number has none.
HumanNumber(s) == [token |-> s, stamp |-> NULL]

\* No unique index on orders.shopify_order_id: nobody to wait for
NoIndexOnOrderId(p, ext) == {}

\* Sessions whose uncommitted insert holds the unique-index entry p would take.
OrderInserters(p, ext) ==
  {q \in Procs \ {p} : \E o \in tx[q].orders : o.shopify_order_id = ext}
ProductInserters(p, ext) ==
  {q \in Procs \ {p} : \E r \in tx[q].products : r.shopify_product_id = ext}
BatchInserters(p, number) ==
  {q \in Procs \ {p} :
     \E id \in (DOMAIN tx[q].batches) \ (DOMAIN batches) :
        tx[q].batches[id].batch_number = number}

\* The names requests have used so far and the first one not yet used: which
\* unused name a request takes makes no difference to what follows.
InPlay(names, used) ==
  used \cup {names[n] : n \in {m \in 1..Len(names) :
                 \A j \in 1..(m - 1) : names[j] \in used}}

OrderIdsInPlay ==
  InPlay(OrderIds, {o.shopify_order_id : o \in orders}
                   \cup {req[q].shopifyOrderId : q \in {r \in Procs : req[r].kind = "order"}})

BatchNumbersInPlay ==
  InPlay(BatchNumbers, {batches[id].batch_number.token : id \in DOMAIN batches}
                   \cup {req[q].batchNumber : q \in {r \in Procs : req[r].kind = "create"}})

OrderBodies(S) == {b \in S : b.shopifyOrderId \in OrderIdsInPlay}
CreateBodies(S) == {b \in S : b.batchNumber \in BatchNumbersInPlay}

\* No unique index on batches.batch_number
BatchNumberNeverTaken(p, number) == FALSE

BatchNumberTaken(p, number) ==
  \E id \in DOMAIN ViewBatches(p) : ViewBatches(p)[id].batch_number = number

(***************************************************************************)
(* ORDER BY expiry_date ASC NULLS LAST, created_at ASC                      *)
(***************************************************************************)
\* ORDER BY created_at ASC alone: first in, first out, whatever the expiry
SortsBeforeByCreation(a, b) == a.created_at < b.created_at

\* Row a sorts strictly before row b.
SortsBefore(a, b) ==
  \/ a.expiry_date /= NULL /\ b.expiry_date = NULL
  \/ a.expiry_date /= NULL /\ b.expiry_date /= NULL /\ a.expiry_date < b.expiry_date
  \/ a.expiry_date = b.expiry_date /\ a.created_at < b.created_at

\* Every order the sort may return the rows of S in: rows that tie on both
\* keys come in an order the database chooses.
RECURSIVE OrderBy(_)
OrderBy(S) ==
  IF S = {} THEN {<<>>}
  ELSE UNION {{<<r>> \o s : s \in OrderBy(S \ {r})} :
                r \in {x \in S : \A y \in S : ~SortsBefore(y, x)}}

\* The SELECT without its product_id = $1: the batches of every product
FulfillableBatchesOfAnyProduct(view, productId) ==
  LET rows == {view[id] : id \in {x \in DOMAIN view : view[x].quantity > 0}}
  IN {[n \in 1..Len(s) |-> [id |-> s[n].id, quantity |-> s[n].quantity]] :
        s \in OrderBy(rows)}

\* SELECT id, quantity FROM batches WHERE product_id = $1 AND quantity > 0 ORDER BY ...
FulfillableBatches(view, productId) ==
  LET rows == {view[id] : id \in {x \in DOMAIN view :
                   view[x].product_id = productId /\ view[x].quantity > 0}}
  IN {[n \in 1..Len(s) |-> [id |-> s[n].id, quantity |-> s[n].quantity]] :
        s \in OrderBy(rows)}

(***************************************************************************)
(* Time.  The clock is read by BEGIN (the transaction's time stamp, which  *)
(* is the created_at of the rows it inserts) and by new Date(); any amount *)
(* of time may have passed since it was last read.                         *)
(***************************************************************************)
TimePasses == clock' \in clock..MaxClock

(***************************************************************************)
(* Ends of a transaction.                                                  *)
(***************************************************************************)
\* The route answers with the status processOrder's outcome asks for
AnswerPassesOn(p, status) == status

\* What the route answers once processOrder returned (201) or threw (500):
\* the webhook route answers 200 in both cases, every other route passes
\* the status on.
Answer(p, status) ==
  IF req[p].kind = "order" /\ req[p].via = "webhook" THEN 200 ELSE status

\* The catch block without its ROLLBACK: the client goes back to the pool
\* and what the transaction wrote so far ends up committed.
AbortKeepsWrites(p, status) ==
  /\ products' = products \cup tx[p].products
  /\ batches' = Merge(batches, tx[p].batches)
  /\ orders' = orders \cup tx[p].orders
  /\ order_line_items' = order_line_items \o tx[p].lines
  /\ pc' = [pc EXCEPT ![p] = "idle"]
  /\ tx' = [tx EXCEPT ![p] = NoTx]
  /\ loc' = [loc EXCEPT ![p] = NoLoc]
  /\ resp' = Answer(p, status)
  /\ req' = [req EXCEPT ![p] = NoReq]
  /\ checkedOut' = checkedOut - 1
  /\ UNCHANGED <<nextId, calls, form>>

\* The catch block in a route whose finally does not release the client
RollbackKeepsClient(p, status) ==
  /\ pc' = [pc EXCEPT ![p] = "idle"]
  /\ tx' = [tx EXCEPT ![p] = NoTx]
  /\ loc' = [loc EXCEPT ![p] = NoLoc]
  /\ resp' = Answer(p, status)
  /\ req' = [req EXCEPT ![p] = NoReq]
  /\ UNCHANGED <<products, batches, orders, order_line_items, nextId, calls, checkedOut, form>>
\* ROLLBACK, release the client, answer with the given status.
Rollback(p, status) ==
  /\ pc' = [pc EXCEPT ![p] = "idle"]
  /\ tx' = [tx EXCEPT ![p] = NoTx]
  /\ loc' = [loc EXCEPT ![p] = NoLoc]
  /\ resp' = Answer(p, status)
  /\ req' = [req EXCEPT ![p] = NoReq]
  /\ checkedOut' = checkedOut - 1
  /\ UNCHANGED <<products, batches, orders, order_line_items, nextId, calls, form>>

\* COMMIT of p's transaction with the writes w, release the client, answer.
CommitWrites(p, w, status) ==
  /\ products' = products \cup w.products
  /\ batches' = Merge(batches, w.batches)
  /\ orders' = orders \cup w.orders
  /\ order_line_items' = order_line_items \o w.lines
  /\ pc' = [pc EXCEPT ![p] = "idle"]
  /\ tx' = [tx EXCEPT ![p] = NoTx]
  /\ loc' = [loc EXCEPT ![p] = NoLoc]
  /\ resp' = Answer(p, status)
  /\ req' = [req EXCEPT ![p] = NoReq]
  /\ checkedOut' = checkedOut - 1
  /\ UNCHANGED form

(***************************************************************************)
(* processOrder, called by POST /api/orders                                *)
(***************************************************************************)
\* Another handler is serving a request for the external order identifier.
SameOrderInFlight(p, ext) ==
  \E q \in Procs \ {p} : req[q].kind = "order" /\ req[q].shopifyOrderId = ext

\* The payload check, pool.connect() and BEGIN.
StartOrder(p, bodies) ==
  /\ pc[p] = "idle"
  /\ CallsStarted < MaxCalls
  /\ TimePasses
  /\ calls' = [calls EXCEPT !.total = @ + 1]
  /\ \E payload \in bodies :
       /\ IF Len(payload.lineItems) = 0
          THEN /\ pc' = [pc EXCEPT ![p] = "idle"]
               /\ req' = [req EXCEPT ![p] = NoReq]
               /\ resp' = 500
               /\ loc' = [loc EXCEPT ![p] = NoLoc]
               /\ UNCHANGED checkedOut
          ELSE /\ pc' = [pc EXCEPT ![p] = "insertOrder"]
               /\ req' = [req EXCEPT ![p] = payload]
               /\ UNCHANGED resp
               /\ loc' = [loc EXCEPT ![p] =
                    [NoLoc EXCEPT !.txStart = clock',
                                  !.overlapped = SameOrderInFlight(p, payload.shopifyOrderId)]]
               /\ checkedOut' = checkedOut + 1
  /\ UNCHANGED <<products, batches, orders, order_line_items, nextId, tx, form>>

\* POST /webhooks/orders/create for a delivery that passed the HMAC check:
\* the mapping of the order, the answer when no line item is usable, and
\* processOrder up to BEGIN.
StartWebhook(p, deliveries) ==
  /\ pc[p] = "idle"
  /\ CallsStarted < MaxCalls
  /\ TimePasses
  /\ calls' = [calls EXCEPT !.total = @ + 1]
  /\ \E order \in deliveries :
       LET lineItems == MapLineItems(order.line_items)
           payload == [kind |-> "order", via |-> "webhook",
                       shopifyOrderId |-> OrderIdString(order.id),
                       orderDate |-> IF order.created_at = NULL THEN clock'
                                     ELSE order.created_at,
                       lineItems |-> lineItems,
                       line_items |-> order.line_items]
       IN IF Len(lineItems) = 0
          THEN /\ pc' = [pc EXCEPT ![p] = "idle"]
               /\ req' = [req EXCEPT ![p] = NoReq]
               /\ resp' = 200
               /\ loc' = [loc EXCEPT ![p] = NoLoc]
               /\ UNCHANGED checkedOut
          ELSE /\ pc' = [pc EXCEPT ![p] = "insertOrder"]
               /\ req' = [req EXCEPT ![p] = payload]
               /\ UNCHANGED resp
               /\ loc' = [loc EXCEPT ![p] =
                    [NoLoc EXCEPT !.txStart = clock',
                                  !.overlapped = SameOrderInFlight(p, payload.shopifyOrderId)]]
               /\ checkedOut' = checkedOut + 1
  /\ UNCHANGED <<products, batches, orders, order_line_items, nextId, tx, form>>

\* The local variables at the top of the loop body for line item n.
AtLineItem(l, items, n) ==
  [l EXCEPT !.i = n, !.quantityToFulfill = items[n].quantity,
            !.productId = 0, !.productSku = "", !.batchesResult = <<>>, !.k = 0]

\* INSERT INTO orders ... ON CONFLICT (shopify_order_id) DO NOTHING RETURNING id,
\* and the SELECT that fetches the id of the row that was already there.
InsertOrder(p) ==
  /\ pc[p] = "insertOrder"
  /\ OrderInserters(p, req[p].shopifyOrderId) = {}
  /\ LET found == {o \in orders : o.shopify_order_id = req[p].shopifyOrderId}
         row == [id |-> nextId.orders, shopify_order_id |-> req[p].shopifyOrderId,
                 order_date |-> req[p].orderDate]
     IN IF found /= {}
        THEN /\ loc' = [loc EXCEPT ![p] =
                  AtLineItem([loc[p] EXCEPT !.existed = TRUE,
                                            !.newOrderId = (CHOOSE o \in found : TRUE).id],
                             req[p].lineItems, 1)]
             /\ UNCHANGED <<tx, nextId>>
        ELSE /\ loc' = [loc EXCEPT ![p] =
                  AtLineItem([loc[p] EXCEPT !.newOrderId = row.id], req[p].lineItems, 1)]
             /\ tx' = [tx EXCEPT ![p].orders = @ \cup {row}]
             /\ nextId' = [nextId EXCEPT !.orders = @ + 1]
  /\ pc' = [pc EXCEPT ![p] = "selectProduct"]
  /\ UNCHANGED <<products, batches, orders, order_line_items, clock, req, resp, calls,
                 checkedOut, form>>

\* The shortfall branch entered on quantityToFulfill >= 0 instead of > 0
AfterPickShortfallAtZero(p, l, q, k) ==
  LET m == [l EXCEPT !.quantityToFulfill = q, !.k = k]
  IN IF k <= Len(l.batchesResult) /\ q > 0
     THEN <<"allocate", m>>
     ELSE IF q >= 0
          THEN <<"resolve", m>>
          ELSE IF l.i < Len(req[p].lineItems)
               THEN <<"selectProduct", AtLineItem(m, req[p].lineItems, l.i + 1)>>
               ELSE <<"commit", m>>

\* The walk without `if (quantityToFulfill <= 0) break`: on to the next row
\* whatever is outstanding
AfterPickNoEarlyStop(p, l, q, k) ==
  LET m == [l EXCEPT !.quantityToFulfill = q, !.k = k]
  IN IF k <= Len(l.batchesResult)
     THEN <<"allocate", m>>
     ELSE IF q > 0
          THEN <<"resolve", m>>
          ELSE IF l.i < Len(req[p].lineItems)
               THEN <<"selectProduct", AtLineItem(m, req[p].lineItems, l.i + 1)>>
               ELSE <<"commit", m>>

\* Where the handler goes once the walk over batchesResult stands at row k
\* with q units outstanding: on in the walk, to the shortfall branch, to the
\* next line item, or to COMMIT.
AfterPick(p, l, q, k) ==
  LET m == [l EXCEPT !.quantityToFulfill = q, !.k = k]
  IN IF k <= Len(l.batchesResult) /\ q > 0
     THEN <<"allocate", m>>
     ELSE IF q > 0
          THEN <<"resolve", m>>
          ELSE IF l.i < Len(req[p].lineItems)
               THEN <<"selectProduct", AtLineItem(m, req[p].lineItems, l.i + 1)>>
               ELSE <<"commit", m>>

\* The SELECT of the product's batches with stock, in allocation order, by
\* the handler whose local variables are l: the handler with its result.
SelectBatches(p, l) ==
  {AfterPick(p, [l EXCEPT !.batchesResult = rows], l.quantityToFulfill, 1) :
     rows \in FulfillableBatches(ViewBatches(p), l.productId)}

\* SELECT id, sku FROM products WHERE shopify_product_id = $1 and, when the
\* product is there, the SELECT of its batches (a product row never changes,
\* so the two reads are as good as one).
SelectProduct(p) ==
  /\ pc[p] = "selectProduct"
  /\ LET ext == req[p].lineItems[loc[p].i].shopifyProductId
         found == {r \in ViewProducts(p) : r.shopify_product_id = ext}
         productInfo == CHOOSE r \in found : TRUE
     IN IF found = {}
        THEN /\ pc' = [pc EXCEPT ![p] = "insertProduct"]
             /\ UNCHANGED loc
        ELSE \E next \in SelectBatches(p, [loc[p] EXCEPT !.productId = productInfo.id,
                                                         !.productSku = productInfo.sku]) :
               /\ pc' = [pc EXCEPT ![p] = next[1]]
               /\ loc' = [loc EXCEPT ![p] = next[2]]
  /\ UNCHANGED <<products, batches, orders, order_line_items, nextId, clock, req, tx,
                 resp, calls, checkedOut, form>>

\* INSERT INTO products (...) RETURNING id, sku; the unique index on
\* shopify_product_id makes it fail when a committed row has the identifier.
\* Then the SELECT of the new product's batches.
InsertProduct(p) ==
  /\ pc[p] = "insertProduct"
  /\ LET ext == req[p].lineItems[loc[p].i].shopifyProductId
         row == [id |-> nextId.products, shopify_product_id |-> ext, sku |-> SkuOf(ext)]
     IN /\ ProductInserters(p, ext) = {}
        /\ IF \E r \in products : r.shopify_product_id = ext
           THEN Rollback(p, 500) /\ UNCHANGED clock
           ELSE /\ tx' = [tx EXCEPT ![p].products = @ \cup {row}]
                /\ nextId' = [nextId EXCEPT !.products = @ + 1]
                /\ \E next \in SelectBatches(p, [loc[p] EXCEPT !.productId = row.id,
                                                               !.productSku = row.sku]) :
                     /\ pc' = [pc EXCEPT ![p] = next[1]]
                     /\ loc' = [loc EXCEPT ![p] = next[2]]
                /\ UNCHANGED <<products, batches, orders, order_line_items, clock, req,
                               resp, calls, checkedOut, form>>

\* The whole outstanding quantity taken from the batch, whatever it holds
PickOutstanding(quantityToFulfill, batchQuantity) == quantityToFulfill

\* const pick = Math.min(quantityToFulfill, batch.quantity)
Pick(quantityToFulfill, batchQuantity) == Min(quantityToFulfill, batchQuantity)

\* UPDATE batches SET quantity = quantity - $1 WHERE id = $2, on the row as
\* the statement finds it
Decrement(row, amount) == [row EXCEPT !.quantity = row.quantity - amount]

\* order_line_items.batch_id references batches(id)
ForeignKeyHolds(view, batchId) == batchId \in DOMAIN view

\* One turn of the loop over batchesResult: the UPDATE of the batch (which
\* waits for the row lock) and the INSERT of the order line item.
Allocate(p) ==
  /\ pc[p] = "allocate"
  /\ LET batch == loc[p].batchesResult[loc[p].k]
         pick == Pick(loc[p].quantityToFulfill, batch.quantity)
         view == ViewBatches(p)
         next == AfterPick(p, loc[p], loc[p].quantityToFulfill - pick, loc[p].k + 1)
     IN /\ ~LockedByOther(p, batch.id)
        /\ IF ~ForeignKeyHolds(view, batch.id)
           THEN Rollback(p, 500) /\ UNCHANGED clock
           ELSE /\ tx' = [tx EXCEPT
                            ![p].batches = Merge(@, [x \in {batch.id} |->
                                                      Decrement(view[batch.id], pick)]),
                            ![p].lines = Append(@, [order_id |-> loc[p].newOrderId,
                                                    product_id |-> loc[p].productId,
                                                    batch_id |-> batch.id,
                                                    quantity |-> pick])]
                /\ pc' = [pc EXCEPT ![p] = next[1]]
                /\ loc' = [loc EXCEPT ![p] = next[2]]
                /\ UNCHANGED <<products, batches, orders, order_line_items, nextId, clock,
                               req, resp, calls, checkedOut, form>>

\* The batch number of a batch synthesized at time now for a product with
\* the given SKU: `${productSku || 'PROD'}-${yyyymmdd}-${now.getTime()}`
NewBatchNumber(productSku, now) ==
  [token |-> IF Truthy(productSku) THEN productSku ELSE "PROD", stamp |-> now]

\* now.setDate(now.getDate() + parseInt(shelfLifeDays, 10)), as a date
NewExpiryDate(shelfLifeDays, now) ==
  IF Truthy(shelfLifeDays) THEN now + parseInt(shelfLifeDays) ELSE NULL

\* const newBatchQty = defaultBatchQuantity ? parseInt(defaultBatchQuantity, 10) : 100
NewBatchQty(defaultBatchQuantity, quantityToFulfill) ==
  IF Truthy(defaultBatchQuantity) THEN parseInt(defaultBatchQuantity) ELSE DefaultBatchQty

\* const pickRest = Math.min(quantityToFulfill, newBatchQty)
PickRest(quantityToFulfill, newBatchQty) == Min(quantityToFulfill, newBatchQty)

\* A shortfall left after the synthesis stops the handler for good
AfterItemStopsOnShortfall(p, l) ==
  IF l.quantityToFulfill > 0
  THEN <<"shortfall", l>>
  ELSE IF l.i < Len(req[p].lineItems)
       THEN <<"selectProduct", AtLineItem(l, req[p].lineItems, l.i + 1)>>
       ELSE <<"commit", l>>

\* Where the handler goes after the shortfall branch of line item l.i.
AfterItem(p, l) ==
  IF l.i < Len(req[p].lineItems)
  THEN <<"selectProduct", AtLineItem(l, req[p].lineItems, l.i + 1)>>
  ELSE <<"commit", l>>

\* What p's next statement waits for: the sessions that hold the row lock or
\* the uncommitted unique-index entry it needs.
Blockers(p) ==
  CASE pc[p] = "insertOrder" -> OrderInserters(p, req[p].shopifyOrderId)
    [] pc[p] = "insertProduct" ->
         ProductInserters(p, req[p].lineItems[loc[p].i].shopifyProductId)
    [] pc[p] = "allocate" -> LockHolders(loc[p].batchesResult[loc[p].k].id) \ {p}
    [] pc[p] = "resolve" -> BatchInserters(p, NewBatchNumber(loc[p].productSku, clock))
    [] pc[p] = "cInsertProduct" -> ProductInserters(p, req[p].shopifyProductId)
    [] pc[p] = "cInsertBatch" -> BatchInserters(p, HumanNumber(req[p].batchNumber))
    [] pc[p] = "dDelete" -> LockHolders(loc[p].target) \ {p}
    [] OTHER -> {}

\* The shortfall branch: the metafield lookup answers, a batch is inserted
\* under a generated number, decremented, and the order line item recorded.
Synthesize(p) ==
  /\ pc[p] = "resolve"
  /\ LET apiResponse == Metafields(req[p].lineItems[loc[p].i].shopifyProductId)
         shelfLifeDays == apiResponse.shelfLife
         defaultBatchQuantity == apiResponse.batchQuantity
     IN
     \E now \in clock..MaxClock :
       LET newBatchNumber == NewBatchNumber(loc[p].productSku, now)
           newBatchQty == NewBatchQty(defaultBatchQuantity, loc[p].quantityToFulfill)
           pickRest == PickRest(loc[p].quantityToFulfill, newBatchQty)
           row == [id |-> nextId.batches, product_id |-> loc[p].productId,
                   batch_number |-> newBatchNumber,
                   expiry_date |-> NewExpiryDate(shelfLifeDays, now),
                   quantity |-> newBatchQty, created_at |-> loc[p].txStart]
           next == AfterItem(p, [loc[p] EXCEPT !.quantityToFulfill = @ - pickRest])
       IN /\ BatchInserters(p, newBatchNumber) = {}
          /\ clock' = now
          /\ IF BatchNumberTaken(p, newBatchNumber)
             THEN Rollback(p, 500)
             ELSE
               /\ tx' = [tx EXCEPT
                           ![p].batches = Merge(@, [x \in {row.id} |-> Decrement(row, pickRest)]),
                           ![p].lines = Append(@, [order_id |-> loc[p].newOrderId,
                                                   product_id |-> loc[p].productId,
                                                   batch_id |-> row.id,
                                                   quantity |-> pickRest])]
               /\ nextId' = [nextId EXCEPT !.batches = @ + 1]
               /\ pc' = [pc EXCEPT ![p] = next[1]]
               /\ loc' = [loc EXCEPT ![p] = next[2]]
               /\ UNCHANGED <<products, batches, orders, order_line_items, req,
                              resp, calls, checkedOut, form>>

\* makeShopifyApiCall throws (no installation row, HTTP error, timeout): the
\* catch block rolls back and rethrows.
ResolverFails(p) ==
  /\ pc[p] = "resolve"
  /\ Rollback(p, 500)
  /\ UNCHANGED clock

\* COMMIT; POST /api/orders answers 201.
Commit(p) ==
  /\ pc[p] = "commit"
  /\ CommitWrites(p, tx[p], 201)
  /\ UNCHANGED <<nextId, clock, calls>>

\* A statement of the transaction fails: the catch block rolls back and the
\* route answers 500.
QueryFails(p) ==
  /\ pc[p] \in {"insertOrder", "selectProduct", "insertProduct", "allocate", "commit",
                "cSelectProduct", "cInsertProduct", "cInsertBatch"}
  /\ Rollback(p, 500)
  /\ UNCHANGED clock

(***************************************************************************)
(* POST /api/batches                                                       *)
(***************************************************************************)
StartCreate(p, bodies) ==
  /\ pc[p] = "idle"
  /\ CallsStarted < MaxCalls
  /\ TimePasses
  /\ calls' = [calls EXCEPT !.total = @ + 1]
  /\ \E payload \in bodies :
       /\ IF payload.quantity = 0
          THEN /\ pc' = [pc EXCEPT ![p] = "idle"]
               /\ req' = [req EXCEPT ![p] = NoReq]
               /\ resp' = 400
               /\ loc' = [loc EXCEPT ![p] = NoLoc]
               /\ UNCHANGED checkedOut
          ELSE /\ pc' = [pc EXCEPT ![p] = "cSelectProduct"]
               /\ req' = [req EXCEPT ![p] = payload]
               /\ UNCHANGED resp
               /\ loc' = [loc EXCEPT ![p] = [NoLoc EXCEPT !.txStart = clock']]
               /\ checkedOut' = checkedOut + 1
  /\ UNCHANGED <<products, batches, orders, order_line_items, nextId, tx, form>>

CSelectProduct(p) ==
  /\ pc[p] = "cSelectProduct"
  /\ LET found == {r \in ViewProducts(p) : r.shopify_product_id = req[p].shopifyProductId}
     IN IF found = {}
        THEN /\ pc' = [pc EXCEPT ![p] = "cInsertProduct"]
             /\ UNCHANGED loc
        ELSE /\ pc' = [pc EXCEPT ![p] = "cInsertBatch"]
             /\ loc' = [loc EXCEPT ![p].productId = (CHOOSE r \in found : TRUE).id]
  /\ UNCHANGED <<products, batches, orders, order_line_items, nextId, clock, req, tx,
                 resp, calls, checkedOut, form>>

\* A unique violation (23505) is answered 409 whichever index raised it.
CInsertProduct(p) ==
  /\ pc[p] = "cInsertProduct"
  /\ Blockers(p) = {}
  /\ LET ext == req[p].shopifyProductId
         row == [id |-> nextId.products, shopify_product_id |-> ext, sku |-> SkuOf(ext)]
     IN IF \E r \in products : r.shopify_product_id = ext
        THEN Rollback(p, 409) /\ UNCHANGED clock
        ELSE /\ tx' = [tx EXCEPT ![p].products = @ \cup {row}]
             /\ nextId' = [nextId EXCEPT !.products = @ + 1]
             /\ loc' = [loc EXCEPT ![p].productId = row.id]
             /\ pc' = [pc EXCEPT ![p] = "cInsertBatch"]
             /\ UNCHANGED <<products, batches, orders, order_line_items, clock, req,
                            resp, calls, checkedOut, form>>

\* let finalExpiryDate = expiryDate || null, else from the shelf-life metafield
FinalExpiryDate(expiryDate, shelfLifeDays, today) ==
  IF expiryDate /= NULL THEN expiryDate ELSE NewExpiryDate(shelfLifeDays, today)

\* The metafield lookup when no expiry date was given, INSERT INTO batches and COMMIT.
CInsertBatch(p) ==
  /\ pc[p] = "cInsertBatch"
  /\ Blockers(p) = {}
  /\ LET shelfLifeDays == Metafields(req[p].shopifyProductId).shelfLife
     IN
     \E today \in IF req[p].expiryDate = NULL THEN clock..MaxClock ELSE {clock} :
       LET row == [id |-> nextId.batches, product_id |-> loc[p].productId,
                   batch_number |-> HumanNumber(req[p].batchNumber),
                   expiry_date |-> FinalExpiryDate(req[p].expiryDate, shelfLifeDays, today),
                   quantity |-> req[p].quantity, created_at |-> loc[p].txStart]
       IN /\ clock' = today
          /\ IF BatchNumberTaken(p, row.batch_number)
             THEN Rollback(p, 409)
             ELSE /\ CommitWrites(p, [tx[p] EXCEPT
                                       !.batches = Merge(@, [x \in {row.id} |-> row])], 201)
                  /\ nextId' = [nextId EXCEPT !.batches = @ + 1]
                  /\ UNCHANGED calls

CResolverFails(p) ==
  /\ pc[p] = "cInsertBatch"
  /\ req[p].expiryDate = NULL
  /\ Rollback(p, 500)
  /\ UNCHANGED clock

(***************************************************************************)
(* PUT /api/batches/:id and DELETE /api/batches/:id (no transaction)       *)
(***************************************************************************)
\* An UPDATE that also sets product_id
UpdatedRowOfNoProduct(row, body) ==
  [row EXCEPT !.expiry_date = body.expiryDate,
              !.quantity = IF body.quantity = NULL THEN 0 ELSE body.quantity,
              !.product_id = 0]

\* [expiryDate || null, Number.parseInt(quantity, 10) || 0]
UpdatedRow(row, body) ==
  [row EXCEPT !.expiry_date = body.expiryDate,
              !.quantity = IF body.quantity = NULL THEN 0 ELSE body.quantity]

\* The single UPDATE statement; it waits while a transaction holds the row.
UpdateBatch(bodies) ==
  /\ CallsStarted < MaxCalls
  /\ calls.update < MaxUpdates
  /\ \E id \in DOMAIN batches, body \in bodies :
       /\ LockHolders(id) = {}
       /\ batches' = [batches EXCEPT ![id] = UpdatedRow(batches[id], body)]
  /\ calls' = [calls EXCEPT !.total = @ + 1, !.update = @ + 1]
  /\ UNCHANGED <<products, orders, order_line_items, nextId, clock, pc, req, loc, tx, resp,
                 checkedOut, form>>

\* The route without its look at order_line_items
NoConsumptionCheck(id) == FALSE

\* SELECT 1 FROM order_line_items WHERE batch_id = $1 LIMIT 1
HasConsumptions(id) ==
  \E n \in 1..Len(order_line_items) : order_line_items[n].batch_id = id

StartDelete(p) ==
  /\ pc[p] = "idle"
  /\ CallsStarted < MaxCalls
  /\ calls.delete < MaxDeletes
  /\ \E id \in DOMAIN batches :
       /\ UNCHANGED req
       /\ IF HasConsumptions(id)
          THEN /\ pc' = [pc EXCEPT ![p] = "idle"]
               /\ resp' = 409
               /\ loc' = [loc EXCEPT ![p] = NoLoc]
          ELSE /\ pc' = [pc EXCEPT ![p] = "dDelete"]
               /\ UNCHANGED resp
               /\ loc' = [loc EXCEPT ![p] = [NoLoc EXCEPT !.target = id]]
  /\ calls' = [calls EXCEPT !.total = @ + 1, !.delete = @ + 1]
  /\ UNCHANGED <<products, batches, orders, order_line_items, nextId, clock, tx,
                 checkedOut, form>>

\* A schema without the reference from order_line_items to batches
ForeignKeyIgnored(id) == FALSE

\* order_line_items.batch_id references batches(id): the DELETE of a batch
\* that a committed order line item references fails.
ForeignKeyRestricts(id) ==
  \E n \in 1..Len(order_line_items) : order_line_items[n].batch_id = id

\* DELETE FROM batches WHERE id = $1 RETURNING *; it waits while a
\* transaction holds the row, and fails (500) on the foreign key.
DDelete(p) ==
  /\ pc[p] = "dDelete"
  /\ Blockers(p) = {}
  /\ LET id == loc[p].target
     IN IF id \notin DOMAIN batches
        THEN /\ resp' = 404
             /\ UNCHANGED batches
        ELSE IF ForeignKeyRestricts(id)
             THEN /\ resp' = 500
                  /\ UNCHANGED batches
             ELSE /\ resp' = 200
                  /\ batches' = [x \in (DOMAIN batches) \ {id} |-> batches[x]]
  /\ pc' = [pc EXCEPT ![p] = "idle"]
  /\ loc' = [loc EXCEPT ![p] = NoLoc]
  /\ UNCHANGED <<products, orders, order_line_items, nextId, clock, req, tx, calls,
                 checkedOut, form>>

(***************************************************************************)
(* GET /api/orders/batch/:batchNumber                                      *)
(***************************************************************************)
\* The batch numbers the route is asked about: human-assigned and generated.
BatchNumberQueries ==
  {HumanNumber(t) : t \in Range(BatchNumbers)}
  \cup {NewBatchNumber(SkuOf(ext), t) : ext \in Products, t \in 0..MaxClock}

\* FROM orders o JOIN order_line_items li ON o.id = li.order_id
\*   JOIN batches b ON li.batch_id = b.id JOIN products p ON li.product_id = p.id
\*  WHERE b.batch_number = $1: the order line items that have a row in the join
JoinedRows(batchNumber) ==
  {n \in 1..Len(order_line_items) :
     /\ \E o \in orders : o.id = order_line_items[n].order_id
     /\ \E id \in DOMAIN batches : /\ id = order_line_items[n].batch_id
                                   /\ batches[id].batch_number = batchNumber
     /\ \E r \in products : r.id = order_line_items[n].product_id}

\* The columns of the row of order line item n (the model keeps no customer
\* name; the product's external identifier stands for its name).
JoinedRow(n) ==
  LET li == order_line_items[n]
      o == CHOOSE x \in orders : x.id = li.order_id
      r == CHOOSE x \in products : x.id = li.product_id
  IN [orderId |-> o.shopify_order_id, date |-> o.order_date, id |-> o.id,
      productName |-> r.shopify_product_id, quantity |-> li.quantity]

\* ORDER BY o.order_date ASC, o.id ASC
SortsBeforeAscending(a, b) ==
  \/ a.date < b.date
  \/ a.date = b.date /\ a.id < b.id

\* ORDER BY o.order_date DESC, o.id DESC: row a sorts strictly before row b
SortsBeforeDescending(a, b) ==
  \/ a.date > b.date
  \/ a.date = b.date /\ a.id > b.id

\* Every order the sort may return the joined rows S in.
RECURSIVE OrderByDescending(_)
OrderByDescending(S) ==
  IF S = {} THEN {<<>>}
  ELSE UNION {{<<JoinedRow(n)>> \o s : s \in OrderByDescending(S \ {n})} :
                n \in {x \in S : \A y \in S : ~SortsBeforeDescending(JoinedRow(y), JoinedRow(x))}}

\* The rows the query may return for the batch number.
OrdersByBatchNumber(batchNumber) == OrderByDescending(JoinedRows(batchNumber))

\* if (!rows.length) return res.status(404)...; return res.json(...)
OrdersByBatchStatus(batchNumber) ==
  IF JoinedRows(batchNumber) = {} THEN 404 ELSE 200

\* The route: one SELECT on the pool, outside every transaction.  It reads
\* committed rows only, so what it answers while a transaction is open is
\* what it answers before the transaction began: the model asks between
\* requests.
GetOrdersByBatch ==
  /\ \A p \in Procs : pc[p] = "idle"
  /\ \E batchNumber \in BatchNumberQueries : resp' = OrdersByBatchStatus(batchNumber)
  /\ UNCHANGED <<products, batches, orders, order_line_items, nextId, clock, pc, req,
                 loc, tx, calls, checkedOut, form>>

(***************************************************************************)
(* The database's deadlock detector.                                       *)
(***************************************************************************)
RECURSIVE WaitsOn(_, _)
WaitsOn(S, n) ==
  IF n = 0 THEN S ELSE WaitsOn(S \cup UNION {Blockers(q) : q \in S}, n - 1)

\* A database without deadlock detection: the sessions of a cycle wait on.
NoDeadlockDetection(p) == FALSE /\ UNCHANGED vars
\* p waits in a cycle of waiting sessions: the detector fails p's statement.
DeadlockVictim(p) ==
  /\ p \in WaitsOn(Blockers(p), Cardinality(Procs))
  /\ Rollback(p, 500)
  /\ UNCHANGED clock

\* The steps of one request handler, whatever the route.
HandlerStep(p) ==
  \/ InsertOrder(p) \/ SelectProduct(p) \/ InsertProduct(p)
  \/ Allocate(p) \/ Synthesize(p) \/ ResolverFails(p) \/ Commit(p) \/ QueryFails(p)
  \/ CSelectProduct(p) \/ CInsertProduct(p) \/ CInsertBatch(p) \/ CResolverFails(p)
  \/ DDelete(p)

\* The steps of a handler that runs processOrder.
OrderStep(p) ==
  \/ InsertOrder(p) \/ SelectProduct(p) \/ InsertProduct(p)
  \/ Allocate(p) \/ Synthesize(p) \/ ResolverFails(p) \/ Commit(p) \/ QueryFails(p)

\* A request is taken by the first free handler.
Free(p) == \A q \in Procs : pc[q] = "idle" => p <= q

\* Requests served concurrently by two handlers.
Next ==
  \/ \E p \in Procs :
       \/ Free(p) /\ StartOrder(p, OrderBodies(RaceOrderPayloads))
       \/ Free(p) /\ StartCreate(p, CreateBodies(RaceCreatePayloads))
       \/ Free(p) /\ StartDelete(p)
       \/ HandlerStep(p)
       \/ DeadlockVictim(p)
  \/ UpdateBatch(RaceUpdatePayloads)

Spec == Init /\ [][Next]_vars

\* Requests served one after the other.
NextSeq ==
  \/ StartOrder(1, OrderBodies(OrderPayloads \cup ZeroQuantityPayloads))
  \/ StartCreate(1, CreateBodies(CreatePayloads))
  \/ StartDelete(1)
  \/ HandlerStep(1)
  \/ UpdateBatch(UpdatePayloads)

SpecSeq == Init /\ [][NextSeq]_vars

WebhookBodies(S) == {b \in S : OrderIdString(b.id) \in OrderIdsInPlay}

\* Webhook deliveries and traceability queries, served one after the other.
NextWebhook ==
  \/ StartWebhook(1, WebhookBodies(WebhookDeliveries))
  \/ OrderStep(1)
  \/ GetOrdersByBatch

SpecWebhook == Init /\ [][NextWebhook]_vars

\* Orders for products with unusual metafields, served one after the other.
NextHints ==
  \/ StartOrder(1, OrderBodies(HintOrderPayloads))
  \/ OrderStep(1)

SpecHints == Init /\ [][NextHints]_vars

(***************************************************************************)
(* The "new batch" form of the admin UI (src/index.js).                    *)
(***************************************************************************)
\* What the server side consists of; the form's handlers leave it alone.
backend == <<products, batches, orders, order_line_items, nextId, pc, req, loc, tx,
             resp, calls, checkedOut>>

\* What the user types into the expiry field: nothing, or a date.
UserDates == {NULL, 7}

\* suggestExpiryFromMetafield(shopifyProductId) up to its fetch: nothing for
\* an empty id, else one more request under way.  The function is a
\* useCallback closure, so the expiryTouched it will read when the response
\* is there is the one of the render it was called in.
SuggestExpiryFromMetafield(f, shopifyProductId) ==
  IF shopifyProductId = "" THEN f
  ELSE [f EXCEPT !.suggestions =
          Append(@, [shopifyProductId |-> shopifyProductId,
                     expiryTouched |-> f.expiryTouched])]

\* onSelectProduct(val)
OnSelectProduct ==
  /\ Len(form.suggestions) < MaxSuggestions
  /\ \E val \in {""} \cup Products :
       LET f == [form EXCEPT !.selectedShopifyProduct = val]
       IN form' = IF ~form.expiryTouched THEN SuggestExpiryFromMetafield(f, val) ELSE f
  /\ UNCHANGED <<backend, clock>>

\* The button "Chargen anzeigen" of the product table
ShowBatches ==
  /\ Len(form.suggestions) < MaxSuggestions
  /\ ~form.expiryTouched
  /\ \E id \in Products : form' = SuggestExpiryFromMetafield(form, id)
  /\ UNCHANGED <<backend, clock>>

\* onChangeExpiry(val)
OnChangeExpiry ==
  /\ \E val \in UserDates :
       form' = [form EXCEPT !.expiryTouched = TRUE, !.expirySuggested = FALSE,
                            !.expiryDate = val]
  /\ UNCHANGED <<backend, clock>>

\* setBatchNumber and setQuantity, the onChange of the two other fields
SetBatchNumber ==
  /\ \E val \in {"", BatchNumbers[1]} : form' = [form EXCEPT !.batchNumber = val]
  /\ UNCHANGED <<backend, clock>>

SetQuantity ==
  /\ \E val \in {"", "1"} : form' = [form EXCEPT !.quantity = val]
  /\ UNCHANGED <<backend, clock>>

\* The form with request n no longer under way
Answered(f, n) ==
  [f EXCEPT !.suggestions = SubSeq(@, 1, n - 1) \o SubSeq(@, n + 1, Len(@))]

\* The rest of suggestExpiryFromMetafield, once the response to one of the
\* requests under way is there (responses arrive in any order): nothing
\* changes when the request failed; no metafield value clears the hint;
\* else the suggested date is set unless the closure's expiryTouched is set.
SuggestionArrives ==
  /\ TimePasses
  /\ \E n \in 1..Len(form.suggestions), ok \in BOOLEAN :
       LET s == form.suggestions[n]
           daysStr == Metafields(s.shopifyProductId).shelfLife
           days == parseInt(daysStr)
           f == Answered(form, n)
       IN form' = IF ~ok THEN f
                  ELSE IF ~Truthy(daysStr) THEN [f EXCEPT !.expirySuggested = FALSE]
                  ELSE IF days /= NULL /\ days > 0 /\ ~s.expiryTouched
                       THEN [f EXCEPT !.expiryDate = clock' + days,
                                      !.expirySuggested = TRUE]
                       ELSE f
  /\ UNCHANGED backend

\* handleCreateBatch once POST /api/batches answered 201: the form is reset.
CreateSucceeds ==
  /\ form.selectedShopifyProduct /= ""
  /\ form.batchNumber /= "" /\ form.quantity /= ""
  /\ form' = [form EXCEPT !.batchNumber = "", !.expiryDate = NULL, !.quantity = "",
                          !.selectedShopifyProduct = "", !.expiryTouched = FALSE,
                          !.expirySuggested = FALSE]
  /\ UNCHANGED <<backend, clock>>

\* The user at the form.
NextForm ==
  \/ OnSelectProduct \/ ShowBatches \/ OnChangeExpiry \/ SetBatchNumber \/ SetQuantity
  \/ SuggestionArrives \/ CreateSucceeds

SpecForm == Init /\ [][NextForm]_vars
(***************************************************************************)
(* Concurrent orders against a stocked shop, with the progress the         *)
(* database and the event loop give: a statement that waits for nothing is *)
(* executed, and a cycle of waiting sessions is broken by the deadlock     *)
(* detector.  Failures of a statement or of the metafield lookup may       *)
(* happen but need not.                                                    *)
(***************************************************************************)
\* The tables after POST /api/batches for LOT1 of P1 and for LOT2 of P2, one
\* unit each; the count of requests starts anew.
InitStocked ==
  /\ products = {[id |-> 1, shopify_product_id |-> "P1", sku |-> SkuOf("P1")],
                 [id |-> 2, shopify_product_id |-> "P2", sku |-> SkuOf("P2")]}
  /\ batches = [id \in {1, 2} |->
                  [id |-> id, product_id |-> id,
                   batch_number |-> HumanNumber(BatchNumbers[id]),
                   expiry_date |-> NULL, quantity |-> 1, created_at |-> 0]]
  /\ orders = {}
  /\ order_line_items = <<>>
  /\ nextId = [products |-> 3, batches |-> 3, orders |-> 1]
  /\ clock = 0
  /\ pc = [p \in Procs |-> "idle"]
  /\ req = [p \in Procs |-> NoReq]
  /\ loc = [p \in Procs |-> NoLoc]
  /\ tx = [p \in Procs |-> NoTx]
  /\ resp = 0
  /\ calls = [total |-> 0, update |-> 0, delete |-> 0]
  /\ checkedOut = 0
  /\ form = NoForm

\* The next statement of processOrder is executed.
Proceeds(p) ==
  \/ InsertOrder(p) \/ SelectProduct(p) \/ Allocate(p) \/ Synthesize(p) \/ Commit(p)

\* Orders of one unit of each of the two products, in either order.
StockedOrderPayloads ==
  {b \in RaceOrderPayloads :
     /\ Len(b.lineItems) = 2
     /\ b.lineItems[1].shopifyProductId /= b.lineItems[2].shopifyProductId}

NextStocked ==
  \E p \in Procs :
    \/ Free(p) /\ StartOrder(p, OrderBodies(StockedOrderPayloads))
    \/ Proceeds(p)
    \/ ResolverFails(p)
    \/ QueryFails(p)
    \/ DeadlockVictim(p)

Fairness == \A p \in Procs : WF_vars(Proceeds(p)) /\ WF_vars(DeadlockVictim(p))

SpecStocked == InitStocked /\ [][NextStocked]_vars /\ Fairness
(***************************************************************************)
(* The claims of the specification.                                        *)
(***************************************************************************)
\* Sum of the quantity fields of a sequence of rows or line items
RECURSIVE SumQuantity(_)
SumQuantity(s) == IF s = <<>> THEN 0 ELSE s[1].quantity + SumQuantity(Tail(s))

\* The order line items (Consumptions) among lines that reference the batch
LinesOfBatch(lines, id) == SelectSeq(lines, LAMBDA l : l.batch_id = id)

\* The handler ends its request with this step.
Ends(p) == pc[p] /= "idle" /\ pc'[p] = "idle"

\* The external order identifier already has a committed Order row.
OrderCommitted(ext) == \E o \in orders : o.shopify_order_id = ext

\* C1: once an order with some external identifier is committed, a later
\* processOrder call with the same identifier persists nothing: it adds no
\* order line item, decrements no batch and creates no batch.
C1_DuplicateOrderHasNoEffect ==
  [][\A p \in Procs :
       (req[p].kind = "order" /\ OrderCommitted(req[p].shopifyOrderId) /\ Ends(p))
       => (order_line_items' = order_line_items /\ batches' = batches)]_vars

\* C2: when a request for an external order identifier arrives while another
\* request for the same identifier is being served, there is one Order row
\* for the identifier afterwards, and the request whose INSERT found the row
\* already there commits no order line item and no batch decrement.
C2_ConcurrentDuplicateOrder ==
  [][\A p \in Procs :
       /\ \A o1, o2 \in orders' :
            o1.shopify_order_id = o2.shopify_order_id => o1 = o2
       /\ (loc[p].overlapped /\ loc[p].existed /\ Ends(p))
          => (tx[p].lines = <<>> /\ tx[p].batches = EmptyFcn
              /\ order_line_items' = order_line_items /\ batches' = batches)]_vars

\* C3: in every reachable state the remaining quantity of every batch is >= 0.
C3_RemainingNonNegative ==
  \A id \in DOMAIN batches : batches[id].quantity >= 0

\* C4: the decrement of a batch by processOrder is a compare-and-decrement:
\* the UPDATE never takes more than the row holds when the UPDATE runs, so
\* two transactions that compete for the last units never take the row
\* below zero.
C4_CompareAndDecrement ==
  [][\A p \in Procs :
       (pc[p] = "allocate" /\ Len(tx'[p].lines) = Len(tx[p].lines) + 1)
       => LET id == loc[p].batchesResult[loc[p].k].id
              taken == tx'[p].lines[Len(tx'[p].lines)].quantity
          IN /\ taken <= ViewBatches(p)[id].quantity
             /\ tx'[p].batches[id].quantity >= 0]_vars

\* The quantity the request asks for of the product, over all its line items
Requested(body, ext) ==
  SumQuantity(SelectSeq(body.lineItems, LAMBDA it : it.shopifyProductId = ext))

\* The quantity the lines allocate of the product
Allocated(p, ext) ==
  SumQuantity(SelectSeq(tx[p].lines, LAMBDA l :
     \E r \in ViewProducts(p) : r.id = l.product_id /\ r.shopify_product_id = ext))

\* C5: processOrder is atomic: when it returns, either every line item is
\* fully allocated (the quantities of its order line items sum to the
\* quantity requested) and the order, its line items and the batch writes are
\* committed together, or nothing of the call is recorded.
C5_AllOrNothing ==
  [][\A p \in Procs :
       (req[p].kind = "order" /\ Ends(p))
       => \/ /\ \A ext \in Products : Allocated(p, ext) = Requested(req[p], ext)
             /\ orders' = orders \cup tx[p].orders
             /\ products' = products \cup tx[p].products
             /\ order_line_items' = order_line_items \o tx[p].lines
             /\ batches' = Merge(batches, tx[p].batches)
          \/ UNCHANGED <<orders, products, order_line_items, batches>>]_vars

\* Row a may come before row b in first-expired-first-out order: earlier
\* expiry first, undated rows after all dated ones, older row first on a tie.
MayComeBefore(a, b) ==
  IF a.expiry_date = NULL
  THEN b.expiry_date = NULL /\ a.created_at <= b.created_at
  ELSE \/ b.expiry_date = NULL
       \/ a.expiry_date < b.expiry_date
       \/ a.expiry_date = b.expiry_date /\ a.created_at <= b.created_at

\* The handler's SELECT of candidate batches runs in this step.
SelectsBatches(p) ==
  pc[p] \in {"selectProduct", "insertProduct"} /\ pc'[p] \in {"allocate", "resolve"}

\* The handler draws from a batch of its candidate list in this step.
Draws(p) == pc[p] = "allocate" /\ Len(tx'[p].lines) = Len(tx[p].lines) + 1

C7_MinPickWalk ==
  [][\A p \in Procs :
       /\ Draws(p) =>
            LET batch == loc[p].batchesResult[loc[p].k]
                outstanding == loc[p].quantityToFulfill
                take == IF outstanding <= batch.quantity THEN outstanding ELSE batch.quantity
                before == ViewBatches(p)
                after == tx'[p].batches
            IN /\ after[batch.id].quantity = before[batch.id].quantity - take
               /\ \A id \in (DOMAIN after) \ {batch.id} :
                    id \in DOMAIN tx[p].batches /\ after[id] = tx[p].batches[id]
               /\ tx'[p].lines = Append(tx[p].lines,
                                        [order_id |-> loc[p].newOrderId,
                                         product_id |-> loc[p].productId,
                                         batch_id |-> batch.id, quantity |-> take])
               /\ IF outstanding = take
                  THEN pc'[p] \in {"selectProduct", "commit"}
                  ELSE /\ pc'[p] \in {"allocate", "resolve"}
                       /\ loc'[p].quantityToFulfill = outstanding - take
                       /\ loc'[p].k = loc[p].k + 1
       /\ (/\ pc[p] /= "commit" /\ pc'[p] = "commit"
           /\ calls'.update = 0 /\ calls'.delete = 0
           /\ Len(req'[p].lineItems) = 1
           /\ DOMAIN batches' = {1, 2}
           /\ batches'[1].product_id = loc'[p].productId
           /\ batches'[2].product_id = loc'[p].productId
           /\ batches'[1].expiry_date /= NULL /\ batches'[2].expiry_date /= NULL
           /\ batches'[1].expiry_date < batches'[2].expiry_date
           /\ batches'[1].quantity > 0 /\ batches'[2].quantity > 0
           /\ batches'[1].quantity < req'[p].lineItems[1].quantity
           /\ req'[p].lineItems[1].quantity <= batches'[1].quantity + batches'[2].quantity)
          => LET n == req'[p].lineItems[1].quantity
                 a == batches'[1].quantity
                 b == batches'[2].quantity
             IN /\ Len(tx'[p].lines) = 2
                /\ tx'[p].lines[1].batch_id = 1 /\ tx'[p].lines[1].quantity = a
                /\ tx'[p].lines[2].batch_id = 2 /\ tx'[p].lines[2].quantity = n - a
                /\ tx'[p].batches[1].quantity = 0
                /\ tx'[p].batches[2].quantity = b - (n - a)]_vars

\* The scenario of C7 with a = 1, b = 2, n = 2, about to commit.
C7_SplitAcrossTwoBatches ==
  \E p \in Procs :
    /\ pc[p] = "commit" /\ calls.update = 0 /\ calls.delete = 0
    /\ Len(req[p].lineItems) = 1 /\ req[p].lineItems[1].quantity = 2
    /\ DOMAIN batches = {1, 2}
    /\ batches[1].quantity = 1 /\ batches[2].quantity = 2
    /\ batches[1].expiry_date = 1 /\ batches[2].expiry_date = 2
    /\ Len(tx[p].lines) = 2
    /\ tx[p].lines[1].batch_id = 1 /\ tx[p].lines[1].quantity = 1
    /\ tx[p].lines[2].batch_id = 2 /\ tx[p].lines[2].quantity = 1
    /\ tx[p].batches[1].quantity = 0 /\ tx[p].batches[2].quantity = 1

\* The handler inserts a synthesized batch in this step.
Synthesizes(p) == pc[p] = "resolve" /\ nextId'.batches = nextId.batches + 1

\* The quantity the batch synthesized in this step is inserted with, and the
\* order line item recorded against it
SynthesizedQuantity(p) ==
  tx'[p].batches[nextId.batches].quantity + tx'[p].lines[Len(tx'[p].lines)].quantity
SynthesizedLine(p) == tx'[p].lines[Len(tx'[p].lines)]

Max(a, b) == IF a >= b THEN a ELSE b

\* C8: the batch synthesized for a shortfall is inserted with
\* max(default-batch-quantity hint, outstanding quantity), hence with at
\* least the outstanding quantity, and all of the outstanding quantity is
\* consumed from it.
C8_SynthesizedCoversShortfall ==
  [][\A p \in Procs :
       Synthesizes(p) =>
         LET hint == Metafields(req[p].lineItems[loc[p].i].shopifyProductId).batchQuantity
             outstanding == loc[p].quantityToFulfill
         IN /\ SynthesizedQuantity(p) >= outstanding
            /\ hint /= "" => SynthesizedQuantity(p) = Max(parseInt(hint), outstanding)
            /\ SynthesizedLine(p).batch_id = nextId.batches
            /\ SynthesizedLine(p).quantity = outstanding
            /\ pc'[p] /= "resolve"]_vars

\* C9: for a batch that has Consumptions, the remaining quantity plus the
\* quantity consumed (the batch's original quantity) never grows and the
\* quantity consumed never exceeds it, so remaining never exceeds the
\* quantity at creation minus the Consumptions.
C9_ConsumptionWithinOriginal ==
  [][\A id \in (DOMAIN batches) \cap (DOMAIN batches') :
       LET consumed == SumQuantity(LinesOfBatch(order_line_items, id))
           consumedAfter == SumQuantity(LinesOfBatch(order_line_items', id))
       IN consumed > 0 =>
            /\ batches'[id].quantity + consumedAfter <= batches[id].quantity + consumed
            /\ batches'[id].quantity >= 0]_vars

\* C10: for a product without batches, with shelf-life hint d and some
\* default-batch-quantity hint, a line item for n units makes one new batch
\* of quantity >= n that expires d days after the order date (never, when
\* there is no shelf-life hint) and one order line item of n units for it.
C10_SynthesizeForProductWithoutBatches ==
  [][\A p \in Procs :
       (/\ Synthesizes(p)
        /\ \A id \in DOMAIN ViewBatches(p) : ViewBatches(p)[id].product_id /= loc[p].productId)
       => LET d == Metafields(req[p].lineItems[loc[p].i].shopifyProductId).shelfLife
              n == req[p].lineItems[loc[p].i].quantity
              newBatch == tx'[p].batches[nextId.batches]
          IN /\ SynthesizedQuantity(p) >= n
             /\ newBatch.expiry_date =
                  (IF d = "" THEN NULL ELSE req[p].orderDate + parseInt(d))
             /\ SynthesizedLine(p).batch_id = nextId.batches
             /\ SynthesizedLine(p).quantity = n]_vars

\* C11: the metafield lookup is made for a line item only when the stock the
\* handler read for the product does not cover the item: a handler stands at
\* the lookup only with every candidate walked, a quantity still outstanding
\* and candidates that hold less than the item asks for.
C11_ResolverOnlyOnShortfall ==
  \A p \in Procs :
    pc[p] = "resolve" =>
      /\ loc[p].quantityToFulfill > 0
      /\ loc[p].k > Len(loc[p].batchesResult)
      /\ SumQuantity(loc[p].batchesResult) < req[p].lineItems[loc[p].i].quantity

\* A request whose line items were all served from stock it found is about
\* to commit: no batch was synthesized for it.
C11_ServedFromStock ==
  \E p \in Procs :
    /\ pc[p] = "commit" /\ req[p].kind = "order"
    /\ tx[p].lines /= <<>>
    /\ DOMAIN tx[p].batches \subseteq DOMAIN batches
    /\ SumQuantity(tx[p].lines) = SumQuantity(req[p].lineItems)
    /\ SumQuantity(loc[p].batchesResult) >= req[p].lineItems[loc[p].i].quantity

\* C12: a failure of the metafield lookup on a shortfall does not end the
\* request: the only way the shortfall branch ends a request is the
\* generated batch number being taken already.
C12_ResolverFailureDegrades ==
  [][\A p \in Procs :
       (pc[p] = "resolve" /\ Ends(p))
       => \E id \in DOMAIN ViewBatches(p) :
            ViewBatches(p)[id].batch_number = NewBatchNumber(loc[p].productSku, clock')]_vars

\* C13: a processOrder call that ends in an error leaves the Order, order
\* line item, Batch and Product relations as they are, drops everything its
\* transaction wrote, and answers 500; only a call that answers 201 changes
\* the relations.
C13_FailureRollsBack ==
  [][\A p \in Procs :
       (req[p].kind = "order" /\ Ends(p))
       => IF resp' = 201
          THEN pc[p] = "commit"
          ELSE /\ resp' = 500
               /\ UNCHANGED <<orders, order_line_items, batches, products>>
               /\ tx'[p] = NoTx]_vars

\* An order and a synthesized batch were inserted and then rolled back: the
\* sequences moved on and the relations are empty.
C13_RolledBackAfterInserts ==
  /\ nextId.orders > 1 /\ orders = {}
  /\ nextId.batches > 1 /\ batches = EmptyFcn
  /\ nextId.products > 1 /\ products = {}
  /\ order_line_items = <<>>
  /\ resp = 500 /\ calls.delete = 0
  /\ \A p \in Procs : pc[p] = "idle"

\* Some order line item references the batch.
IsConsumed(id) == LinesOfBatch(order_line_items, id) /= <<>>

\* C14: a DELETE request for a batch with order line items is answered 409
\* and changes nothing; a request for a batch without any goes on to the
\* DELETE statement, which removes the batch and answers 200; a batch with
\* order line items is never removed.
C14_DeleteOnlyUnconsumed ==
  [][/\ calls'.delete = calls.delete + 1 =>
          IF \E p \in Procs : pc[p] = "idle" /\ pc'[p] = "dDelete"
          THEN /\ \A p \in Procs :
                    (pc[p] = "idle" /\ pc'[p] = "dDelete")
                    => (loc'[p].target \in DOMAIN batches /\ ~IsConsumed(loc'[p].target))
               /\ UNCHANGED <<batches, order_line_items>>
          ELSE /\ resp' = 409
               /\ \E id \in DOMAIN batches : IsConsumed(id)
               /\ UNCHANGED <<batches, order_line_items, orders, products>>
     /\ \A p \in Procs :
          (pc[p] = "dDelete" /\ Ends(p)) =>
            LET id == loc[p].target
            IN IF id \in DOMAIN batches /\ ~IsConsumed(id)
               THEN /\ DOMAIN batches' = (DOMAIN batches) \ {id}
                    /\ \A x \in DOMAIN batches' : batches'[x] = batches[x]
                    /\ resp' = 200
               ELSE UNCHANGED batches /\ resp' /= 200
     /\ \A id \in DOMAIN batches : IsConsumed(id) => id \in DOMAIN batches']_vars

\* An order consumed from the only batch and the DELETE request that
\* followed was answered 409.
C14_ConsumedBatchKept ==
  /\ calls.total = 2 /\ calls.delete = 1 /\ resp = 409
  /\ DOMAIN batches = {1} /\ IsConsumed(1)
  /\ \A p \in Procs : pc[p] = "idle"

\* C15: PUT /api/batches/:id changes neither the quantity nor the expiry
\* date of a batch that has order line items.
C15_NoCorrectionAfterConsumption ==
  [][calls'.update = calls.update + 1 =>
       \A id \in DOMAIN batches : IsConsumed(id) => batches'[id] = batches[id]]_vars

\* The external product identifier the handler is about to insert a row for
ProductWanted(p) ==
  IF req[p].kind = "order"
  THEN req[p].lineItems[loc[p].i].shopifyProductId
  ELSE req[p].shopifyProductId

\* C16: callers that race to create the Product of one external identifier
\* converge to one row: there are never two rows for an identifier, and a
\* caller whose INSERT finds the row committed by the other one goes on with
\* that row's id instead of failing on the unique violation (a statement
\* of POST /api/batches that fails for another reason is answered 500).
C16_ProductRaceConverges ==
  [][/\ \A r1, r2 \in products' :
          r1.shopify_product_id = r2.shopify_product_id => r1 = r2
     /\ \A p \in Procs :
          (/\ pc[p] \in {"insertProduct", "cInsertProduct"}
           /\ pc'[p] /= pc[p]
           /\ \E r \in products : r.shopify_product_id = ProductWanted(p))
          => \/ /\ pc'[p] /= "idle"
                /\ \E r \in products : /\ r.shopify_product_id = ProductWanted(p)
                                       /\ loc'[p].productId = r.id
             \/ req[p].kind = "create" /\ resp' = 500]_vars

\* C17: there is at most one Order row per external order identifier,
\* committed or not, whatever the interleaving of the deliveries.
C17_OneOrderPerIdentifier ==
  /\ \A o1, o2 \in orders : o1.shopify_order_id = o2.shopify_order_id => o1 = o2
  /\ \A p \in Procs : \A o \in tx[p].orders :
       /\ ~OrderCommitted(o.shopify_order_id)
       /\ \A q \in Procs \ {p} : \A o2 \in tx[q].orders :
            o2.shopify_order_id /= o.shopify_order_id

\* A delivery that arrived while another one for the same identifier was
\* being served found the row of the other one.
C17_SecondDeliveryFoundRow ==
  \E p \in Procs :
    /\ loc[p].overlapped /\ loc[p].existed
    /\ OrderCommitted(req[p].shopifyOrderId)
    /\ tx[p].orders = {}

\* Some committed batch carries the batch number of the request.
NumberExists(p) ==
  \E id \in DOMAIN batches : batches[id].batch_number.token = req[p].batchNumber
                             /\ batches[id].batch_number.stamp = NULL

\* C18: POST /api/batches with a batch number that exists adds nothing: no
\* batch and no product row, and the unique violation is answered 409; a
\* request that is answered 201 added one batch under a number that did not
\* exist.
C18_DuplicateBatchNumberRejected ==
  [][\A p \in Procs :
       (req[p].kind = "create" /\ Ends(p))
       => IF resp' = 201
          THEN /\ ~NumberExists(p)
               /\ DOMAIN batches' = (DOMAIN batches) \cup {nextId.batches}
               /\ batches'[nextId.batches].batch_number.token = req[p].batchNumber
          ELSE /\ UNCHANGED <<products, batches, orders, order_line_items>>
               /\ resp' \in {409, 500}
               /\ (resp' = 409 /\ pc[p] = "cInsertBatch") => NumberExists(p)]_vars

\* The second of two POST /api/batches used the number of the first for a
\* product not seen before: 409, and the product row is not left behind.
C18_ProductNotLeftBehind ==
  /\ calls.total = 2 /\ calls.delete = 0 /\ calls.update = 0
  /\ resp = 409
  /\ DOMAIN batches = {1}
  /\ Cardinality(products) = 1 /\ nextId.products = 3
  /\ \A p \in Procs : pc[p] = "idle"

\* C19: no database write is made for an order payload that has a line item
\* of non-positive quantity.
C19_NonPositiveQuantityRejected ==
  \A p \in Procs :
    (req[p].kind = "order" /\ tx[p].orders /= {})
    => \A n \in 1..Len(req[p].lineItems) : req[p].lineItems[n].quantity > 0

\* C20: a quantity left outstanding after the synthesis does not fail the
\* order: the handler goes on to the next line item or to COMMIT with the
\* order line items it has, and the COMMIT records them.
C20_ShortfallStillCommits ==
  [][\A p \in Procs :
       /\ Synthesizes(p) =>
            /\ pc'[p] \in {"selectProduct", "commit"}
            /\ tx'[p].lines = Append(tx[p].lines, SynthesizedLine(p))
            /\ pc'[p] = "commit" =>
                 loc'[p].quantityToFulfill =
                   loc[p].quantityToFulfill - SynthesizedLine(p).quantity
       /\ (pc[p] = "commit" /\ loc[p].quantityToFulfill > 0) => ENABLED Commit(p)
       /\ (pc[p] = "commit" /\ Ends(p) /\ resp' = 201) =>
            /\ order_line_items' = order_line_items \o tx[p].lines
            /\ orders' = orders \cup tx[p].orders]_vars

\* A handler is about to commit with a quantity of its last line item left
\* outstanding after the synthesis.
C20_CommitWithShortfall ==
  \E p \in Procs :
    /\ pc[p] = "commit" /\ loc[p].quantityToFulfill > 0
    /\ tx[p].lines /= <<>>
    /\ DOMAIN tx[p].batches \ DOMAIN batches /= {}

\* The handler serves a webhook delivery.
ServesWebhook(p) == req[p].kind = "order" /\ req[p].via = "webhook"

\* C21: a webhook delivery is always answered 200, also when processOrder
\* throws; a delivery whose processOrder threw leaves the Order, order line
\* item, Batch and Product relations as they were and nothing uncommitted.
C21_WebhookAlwaysAcknowledges ==
  [][\A p \in Procs :
       (ServesWebhook(p) /\ Ends(p))
       => /\ resp' = 200
          /\ ~(pc[p] = "commit" /\ orders' = orders \cup tx[p].orders
                                /\ order_line_items' = order_line_items \o tx[p].lines)
             => /\ UNCHANGED <<orders, order_line_items, batches, products>>
                /\ tx'[p] = NoTx]_vars

\* The only delivery so far inserted an order, a product and a batch, failed
\* and was answered 200: the sequences moved on, the relations are empty.
C21_FailedDeliveryAcknowledged ==
  /\ calls.total = 1 /\ resp = 200
  /\ nextId.orders = 2 /\ nextId.products = 2 /\ nextId.batches = 2
  /\ orders = {} /\ products = {} /\ batches = EmptyFcn /\ order_line_items = <<>>
  /\ \A p \in Procs : pc[p] = "idle" /\ tx[p] = NoTx

\* The order line items that reference a batch carrying the batch number
ConsumptionsOf(batchNumber) ==
  {n \in 1..Len(order_line_items) :
     \E id \in DOMAIN batches : /\ batches[id].batch_number = batchNumber
                                 /\ order_line_items[n].batch_id = id}

\* The entry the traceability lookup owes for order line item n
EntryOf(n) ==
  LET o == CHOOSE x \in orders : x.id = order_line_items[n].order_id
  IN [orderId |-> o.shopify_order_id, date |-> o.order_date,
      quantity |-> order_line_items[n].quantity]

\* The entry a returned row carries
EntryIn(row) == [orderId |-> row.orderId, date |-> row.date, quantity |-> row.quantity]

\* C23: for every batch number, GET /api/orders/batch/:batchNumber returns
\* one entry per order line item that references the batch with that number,
\* by order date descending, and answers 404 exactly when no order line item
\* references it, whether a batch carries the number or not.
C23_FindOrdersByBatchNumber ==
  \A batchNumber \in BatchNumberQueries :
    LET refs == ConsumptionsOf(batchNumber)
    IN /\ (OrdersByBatchStatus(batchNumber) = 404) <=> (refs = {})
       /\ \A n \in refs : \E o \in orders : o.id = order_line_items[n].order_id
       /\ \A s \in OrdersByBatchNumber(batchNumber) :
            /\ Len(s) = Cardinality(refs)
            /\ \A n \in refs :
                 Cardinality({k \in 1..Len(s) : EntryIn(s[k]) = EntryOf(n)})
                   = Cardinality({m \in refs : EntryOf(m) = EntryOf(n)})
            /\ \A j, k \in 1..Len(s) : j < k => s[j].date >= s[k].date

\* Two orders consumed from one batch; the one recorded first is dated
\* later and comes first in what the lookup returns.
C23_LaterOrderFirst ==
  \E batchNumber \in BatchNumberQueries :
    /\ OrdersByBatchStatus(batchNumber) = 200
    /\ \E s \in OrdersByBatchNumber(batchNumber) :
         Len(s) = 2 /\ s[1].date > s[2].date /\ s[1].id < s[2].id

\* A delivered line item has a product reference and a quantity > 0.
IsUsable(li) == li.product_id /= NULL /\ li.quantity /= NULL /\ li.quantity > 0

\* C27: the webhook route hands processOrder the delivered line items that
\* have a product reference and a quantity > 0, in their order, and no
\* other; a delivery it does not hand on is answered 200 and writes nothing
\* (no INSERT is attempted).
C27_WebhookFiltersLineItems ==
  [][calls'.total = calls.total + 1 =>
       IF \A p \in Procs : pc'[p] = pc[p]
       THEN /\ resp' = 200
            /\ UNCHANGED <<orders, order_line_items, batches, products, nextId, tx>>
       ELSE \A p \in Procs :
              pc'[p] /= pc[p] =>
                LET usable == SelectSeq(req'[p].line_items, IsUsable)
                    lineItems == req'[p].lineItems
                IN /\ ServesWebhook(p)'
                   /\ Len(lineItems) > 0 /\ Len(lineItems) = Len(usable)
                   /\ \A n \in 1..Len(lineItems) :
                        /\ lineItems[n].quantity > 0
                        /\ lineItems[n].quantity = usable[n].quantity
                        /\ lineItems[n].shopifyProductId \in Products
                        /\ lineItems[n].shopifyProductId =
                             ProductGid(usable[n].product_id)]_vars

\* The first delivery had no usable line item and was answered 200 without
\* an INSERT; the second one is processed without the line item it lost.
C27_DroppedLineItem ==
  \E p \in Procs :
    /\ calls.total = 2 /\ resp = 200
    /\ nextId.orders = 1 /\ orders = {}
    /\ pc[p] = "insertOrder" /\ ServesWebhook(p)
    /\ Len(req[p].line_items) = 2 /\ Len(req[p].lineItems) = 1

\* The order line item references a batch and a product of the relations,
\* and the product is the one that owns the batch.
AgreesWithBatch(li, batchRows, productRows) ==
  /\ li.batch_id \in DOMAIN batchRows
  /\ \E r \in productRows : r.id = li.product_id
  /\ batchRows[li.batch_id].product_id = li.product_id

\* C22: every order line item, committed or written by an open transaction,
\* references one batch and one product that exist, and its product is
\* the product that owns the batch.
C22_ConsumptionAgreesWithBatch ==
  /\ \A n \in 1..Len(order_line_items) :
       AgreesWithBatch(order_line_items[n], batches, products)
  /\ \A p \in Procs : \A n \in 1..Len(tx[p].lines) :
       AgreesWithBatch(tx[p].lines[n], ViewBatches(p), ViewProducts(p))

\* An order consumed from a batch of its product while a batch of another
\* product had stock.
C22_OtherProductHadStock ==
  \E n \in 1..Len(order_line_items) : \E id \in DOMAIN batches :
    /\ AgreesWithBatch(order_line_items[n], batches, products)
    /\ batches[id].product_id /= order_line_items[n].product_id
    /\ batches[id].quantity > 0
    /\ batches[id].created_at <= batches[order_line_items[n].batch_id].created_at

\* C24: a decrement that finds less in the batch than it set out to take is
\* handled inside processOrder: the handler takes no more than the batch
\* holds and goes on, with what is still outstanding, to the next candidate
\* batch or to the synthesis.
C24_InsufficientStockFallsThrough ==
  [][\A p \in Procs :
       (/\ pc[p] = "allocate" /\ ~Ends(p)
        /\ <<pc'[p], loc'[p], tx'[p]>> /= <<pc[p], loc[p], tx[p]>>
        /\ loc[p].batchesResult[loc[p].k].id \in DOMAIN ViewBatches(p)
        /\ ViewBatches(p)[loc[p].batchesResult[loc[p].k].id].quantity
             < Pick(loc[p].quantityToFulfill, loc[p].batchesResult[loc[p].k].quantity))
       => LET held == ViewBatches(p)[loc[p].batchesResult[loc[p].k].id].quantity
              taken == SumQuantity(tx'[p].lines) - SumQuantity(tx[p].lines)
          IN /\ taken <= Max(held, 0)
             /\ pc'[p] \in {"allocate", "resolve"}
             /\ loc'[p].quantityToFulfill = loc[p].quantityToFulfill - taken]_vars

\* C25: two syntheses never generate the same batch number: handlers that
\* stand at the shortfall branch at the same instant generate different
\* numbers, so neither fails on the unique index on batch_number.
C25_SynthesizedNumbersDistinct ==
  \A p, q \in Procs :
    (p /= q /\ pc[p] = "resolve" /\ pc[q] = "resolve")
    => NewBatchNumber(loc[p].productSku, clock) /= NewBatchNumber(loc[q].productSku, clock)

\* The transaction synthesized a batch for the product of its current line
\* item while serving an earlier line item: the stock it read then did not
\* cover that item.
SynthesizedForProduct(p) ==
  \E n \in 1..Len(tx[p].lines) :
    /\ tx[p].lines[n].product_id = loc[p].productId
    /\ tx[p].lines[n].batch_id \notin DOMAIN batches

\* C26: every line item of a transaction is allocated from the batches as
\* they were when the transaction began.  A transaction that had to
\* synthesize a batch for a product found no more stock of it in that
\* snapshot, so a later line item for the product draws only from batches
\* the transaction wrote itself, never from one that another transaction
\* created or topped up in the meantime.
C26_AllocationFromStartSnapshot ==
  [][\A p \in Procs :
       (Draws(p) /\ SynthesizedForProduct(p))
       => loc[p].batchesResult[loc[p].k].id \in DOMAIN tx[p].batches]_vars

\* PUT /api/batches/:id runs its UPDATE in this step.
Updates == calls'.update = calls.update + 1

\* C28: PUT /api/batches/:id leaves the batch number and the product of
\* every batch as they are (and its id and creation time), and neither adds
\* nor removes a batch.
C28_UpdateKeepsNumberAndProduct ==
  [][Updates =>
       /\ DOMAIN batches' = DOMAIN batches
       /\ \A id \in DOMAIN batches :
            /\ batches'[id].batch_number = batches[id].batch_number
            /\ batches'[id].product_id = batches[id].product_id
            /\ batches'[id].id = batches[id].id
            /\ batches'[id].created_at = batches[id].created_at]_vars

\* A batch created by POST /api/batches, which takes no quantity 0, stands
\* at 0 without any order line item: a PUT changed it, and it still carries
\* its number and its product.
C28_UpdatedBatch ==
  /\ calls.update = 1 /\ order_line_items = <<>>
  /\ \E id \in DOMAIN batches : \E r \in products :
       /\ batches[id].quantity = 0
       /\ batches[id].batch_number = HumanNumber(BatchNumbers[1])
       /\ batches[id].product_id = r.id

\* C29: a PUT /api/batches/:id whose body has no quantity leaves the
\* quantity of the batch as it is, and one whose body has no expiry date
\* leaves the expiry date as it is.
C29_UpdateKeepsMissingField ==
  [][\A id \in DOMAIN batches : \A body \in UpdatePayloads :
       (Updates /\ batches' = [batches EXCEPT ![id] = UpdatedRow(batches[id], body)])
       => /\ body.quantity = NULL => batches'[id].quantity = batches[id].quantity
          /\ body.expiryDate = NULL =>
               batches'[id].expiry_date = batches[id].expiry_date]_vars

\* The product row with the internal id is the product of some line item of
\* the request.
NamedInLineItems(p, productId) ==
  \E r \in ViewProducts(p) : \E n \in 1..Len(req[p].lineItems) :
    r.id = productId /\ r.shopify_product_id = req[p].lineItems[n].shopifyProductId

\* C30: processOrder writes a batch only while a quantity of the current
\* line item is outstanding, only a batch of that line item's product, and
\* one batch per UPDATE; what it commits changes or adds only batches it
\* recorded an order line item of at least one unit against, all of products
\* named in its line items.  Every other batch keeps its row.
C30_OnlyConsumedBatchesChange ==
  [][\A p \in Procs :
       /\ Draws(p) =>
            LET id == loc[p].batchesResult[loc[p].k].id
            IN /\ loc[p].quantityToFulfill > 0
               /\ ViewBatches(p)[id].product_id = loc[p].productId
               /\ NamedInLineItems(p, loc[p].productId)
               /\ \A x \in (DOMAIN tx'[p].batches) \ {id} :
                    x \in DOMAIN tx[p].batches /\ tx'[p].batches[x] = tx[p].batches[x]
       /\ (req[p].kind = "order" /\ Ends(p)) =>
            /\ DOMAIN batches \subseteq DOMAIN batches'
            /\ \A id \in DOMAIN batches' :
                 (id \notin DOMAIN batches \/ batches'[id] /= batches[id])
                 => \E n \in 1..Len(tx[p].lines) :
                      /\ tx[p].lines[n].batch_id = id
                      /\ tx[p].lines[n].quantity > 0
                      /\ batches'[id].product_id = tx[p].lines[n].product_id
                      /\ NamedInLineItems(p, tx[p].lines[n].product_id)]_vars

\* An order is about to commit that took all it needed from the first of
\* two candidate batches and did not touch the second.
C30_SecondCandidateUntouched ==
  \E p \in Procs :
    /\ pc[p] = "commit" /\ loc[p].quantityToFulfill = 0
    /\ Len(loc[p].batchesResult) = 2
    /\ DOMAIN tx[p].batches = {loc[p].batchesResult[1].id}
    /\ loc[p].batchesResult[2].id \in DOMAIN batches
    /\ batches[loc[p].batchesResult[2].id].quantity > 0

\* The handler is between pool.connect() and the finally block of its route.
HoldsClient(p) ==
  pc[p] \in {"insertOrder", "selectProduct", "insertProduct", "allocate", "resolve",
             "commit", "cSelectProduct", "cInsertProduct", "cInsertBatch"}

\* C37: every invocation that took a client from the pool gives it back
\* exactly once, whichever way it ends (commit, a failing query, a failing
\* metafield lookup, a deadlock): the number of clients checked out is the
\* number of invocations under way, and so zero when none is.
C37_ClientReleasedOnce ==
  /\ checkedOut = Cardinality({p \in Procs : HoldsClient(p)})
  /\ (\A p \in Procs : pc[p] = "idle") => checkedOut = 0

\* An order was rolled back (its id is spent, no order is stored) and no
\* handler is at work.
C37_RolledBackAndReleased ==
  /\ \A p \in Procs : pc[p] = "idle"
  /\ nextId.orders > 1
  /\ orders = {}
  /\ checkedOut = 0

\* C34: POST /api/batches answers 409 ('this batch number exists already')
\* only when a batch with the requested number exists; a unique violation
\* raised by the INSERT of the product is not answered that way.
C34_ConflictMeansNumberExists ==
  [][\A p \in Procs :
       (req[p].kind = "create" /\ Ends(p) /\ resp' = 409) => NumberExists(p)]_vars

\* C33: however the two statements of DELETE /api/batches/:id interleave
\* with an order that consumes from the batch, every committed order line
\* item references a stored batch, and a DELETE removes a batch only when
\* no committed order line item references it; the order whose batch is
\* gone before its UPDATE is rolled back.
C33_DeleteRaceLeavesNoOrphan ==
  [][/\ \A n \in 1..Len(order_line_items') :
          order_line_items'[n].batch_id \in DOMAIN batches'
     /\ \A p \in Procs :
          (pc[p] = "dDelete" /\ Ends(p) /\ IsConsumed(loc[p].target))
          => UNCHANGED batches /\ resp' = 500
     /\ \A p \in Procs :
          (/\ pc[p] = "allocate" /\ pc'[p] /= pc[p]
           /\ loc[p].batchesResult[loc[p].k].id \notin DOMAIN ViewBatches(p))
          => pc'[p] = "idle" /\ UNCHANGED <<batches, order_line_items>>]_vars

\* The DELETE request found no order line item for the batch, and before
\* its DELETE statement ran an order committed one.
C33_ConsumedAfterTheCheck ==
  \E p \in Procs :
    /\ pc[p] = "dDelete"
    /\ loc[p].target \in DOMAIN batches
    /\ IsConsumed(loc[p].target)

\* An order selected the batch, and before its UPDATE ran the DELETE
\* request removed it.
C33_DeletedAfterTheSelect ==
  \E p \in Procs :
    /\ pc[p] = "allocate"
    /\ loc[p].batchesResult[loc[p].k].id \notin DOMAIN ViewBatches(p)

\* C32: every committed order line item has a quantity above zero, whatever
\* the default-batch-quantity metafield of the product says ("0" and a
\* negative number included) and whatever quantities the line items of the
\* order carry.
C32_ConsumptionQuantityPositive ==
  \A n \in 1..Len(order_line_items) : order_line_items[n].quantity > 0

\* C36: once the user has edited the expiry field of the form
\* (expiryTouched is set), the response to a request for a suggestion does
\* not change the value of the field, a request that was started before the
\* edit included.
C36_SuggestionKeepsUserValue ==
  [][(form.expiryTouched /\ Len(form'.suggestions) < Len(form.suggestions))
     => form'.expiryDate = form.expiryDate]_vars

\* C35: concurrent orders whose line items reach the same batches in
\* opposite order of product both finish: every invocation of processOrder
\* that began eventually commits or rolls back and returns, none waits
\* forever for the row locks of the other.
C35_OrdersFinish ==
  \A p \in Procs : (pc[p] /= "idle") ~> (pc[p] = "idle")

\* Each of two orders holds the row lock of the batch the other one is
\* about to update.
C35_WaitForEachOther ==
  /\ pc[1] = "allocate" /\ pc[2] = "allocate"
  /\ Blockers(1) = {2} /\ Blockers(2) = {1}
  /\ loc[1].batchesResult[loc[1].k].id /= loc[2].batchesResult[loc[2].k].id

\* What the order p serves has taken from batch id so far
TakenFrom(p, id) == SumQuantity(LinesOfBatch(tx[p].lines, id))

\* C31: the statements of one order see what its earlier line items wrote:
\* as long as no other request has written the batches, what the order has
\* taken from a stored batch, over all its line items, is no more than the
\* batch held when the transaction began, the row it has written is that
\* quantity less what it took, and a batch it synthesized is not overdrawn.
C31_LaterLineItemSeesEarlierWrites ==
  \A p \in Procs :
    (req[p].kind = "order" /\ calls.update = 0)
    => \A id \in DOMAIN tx[p].batches :
         IF id \in DOMAIN batches
         THEN /\ TakenFrom(p, id) <= batches[id].quantity
              /\ tx[p].batches[id].quantity = batches[id].quantity - TakenFrom(p, id)
         ELSE tx[p].batches[id].quantity >= 0

\* The first of two line items for one product took the last unit of the
\* stored batch; the second did not take from it again and was served from
\* a synthesized batch.
C31_SecondLineItemSawEmptyBatch ==
  \E p \in Procs :
    /\ req[p].kind = "order" /\ calls.update = 0
    /\ Len(req[p].lineItems) = 2
    /\ req[p].lineItems[1].shopifyProductId = req[p].lineItems[2].shopifyProductId
    /\ Len(tx[p].lines) = 2
    /\ tx[p].lines[1].batch_id \in DOMAIN batches
    /\ tx[p].batches[tx[p].lines[1].batch_id].quantity = 0
    /\ tx[p].lines[2].batch_id \notin DOMAIN batches

\* The second of two line items for one product took from the batch the
\* first one synthesized.
C31_SecondLineItemSawNewBatch ==
  \E p \in Procs :
    /\ req[p].kind = "order" /\ calls.update = 0
    /\ Len(tx[p].lines) = 2
    /\ tx[p].lines[1].batch_id = tx[p].lines[2].batch_id
    /\ tx[p].lines[1].batch_id \notin DOMAIN batches

====
